---- MODULE Spec2Model ----
(***************************************************************************)
(* quickres (apps/api): the reservation lifecycle as the request handlers  *)
(* of main.rs drive it through the row operations of db.rs.  Every SQL     *)
(* statement is one atomic step on the store (a single SQLite statement);  *)
(* the handlers of concurrent requests interleave between statements, as   *)
(* the handlers are async fns run by a multi-threaded runtime over a       *)
(* shared connection pool and no handler opens a transaction.              *)
(***************************************************************************)
EXTENDS Integers, Sequences, FiniteSets, Bags, TLC

\* ------------------------------------------------------------------ bounds
MaxRequests == 4
MaxInFlight == 2
MaxSpots == 2
MaxTime == 2

\* ------------------------------------------------------ values of the model
NULL == "NULL"

now_utc == "now"

\* The times handed to create and confirm when they are applied on their own.
Times == 1..MaxTime

EventIds == {"e1"}
UnknownEvent == "e0"
Capacities == {1, 2}
EventNames == {"Test Event", "Renamed Event"}

\* user_email values that pass the request validator (validator's email
\* rule): the second has no '.' in its domain.
Emails == {"ann@example.com", "bob@localhost"}

\* DatabaseError::SqlxError(sqlx::Error): the error of a statement the store
\* did not execute, with its text.
ColumnNotFound == "SqlxError: no column found for name: spot_count"
UniqueViolation ==
    "SqlxError: UNIQUE constraint failed: reservations.verification_token"
SqlxErrors == {"SqlxError: database is locked", ColumnNotFound, UniqueViolation}

\* DatabaseError::EnvError(env::VarError), of Database::new
EnvErrors == {"EnvError: environment variable not found"}

\* user_name values of the requests (1 to 255 characters)
UserNames == {"John Doe"}

\* ------------------------------------------------------------------- state
VARIABLES
    events,              \* table events: id -> row
    reservations,        \* table reservations: set of rows
    reservation_tokens,  \* table reservation_tokens: set of rows
    outbox,              \* emails handed to the provider
    inflight,            \* the handlers in flight: a bag of frames, each the
                         \* position of one handler and its local variables
    reply,               \* the response sent last: <<route, result>>, for a
                         \* refusal of reserve or verify_email, an event
                         \* read, an event update or a retrieve with the key
                         \* of the request for a third component
    scanned,             \* replies sent by /scan so far: <<token, result>> -> count
    uuids,               \* number of uuids drawn so far
    issued               \* number of requests accepted so far

vars == <<events, reservations, reservation_tokens, outbox, inflight,
          reply, scanned, uuids, issued>>

store == <<events, reservations, reservation_tokens>>

\* --------------------------------------------------------- token issuance
\* Uuid::new_v4(): the k-th uuid drawn after u have been drawn; no two draws
\* return the same value.
NewUuid(u, k) == u + k

\* A token that does not come from a draw of Uuid::new_v4().
VerificationToken_fixed(u, k) == <<"", 1>>

\* VerificationToken::new(): Self(Uuid::new_v4().to_string())
VerificationToken_new(u, k) == <<"", NewUuid(u, k)>>

\* ReservationToken::<Active>::new(reservation_id, created_at)
ReservationToken_new(reservation_id, created_at, u, k) ==
    [token |-> <<"r-", NewUuid(u, k)>>,
     reservation_id |-> reservation_id,
     created_at |-> created_at,
     status |-> "Active"]

BogusVerificationToken == <<"", 0>>
BogusReservationToken == <<"r-", 0>>

\* ------------------------------------------------------------ email checks
\* email::is_valid_email: exactly one '@', both parts non-empty, and the
\* domain contains a '.' that is neither its first nor its last character.
is_valid_email(email) == email = "ann@example.com"

\* ------------------------------------------------------------- typestates
\* CreatingReservation::prepare
prepare(event_id, user_name, user_email, spot_count, u) ==
    [id |-> NewUuid(u, 1),
     event_id |-> event_id,
     user_name |-> user_name,
     user_email |-> user_email,
     verification_token |-> VerificationToken_new(u, 2),
     spot_count |-> spot_count,
     status |-> "Creating"]

\* A confirm whose tokens all come from one draw of Uuid::new_v4().
confirm_one_draw(self, confirmed_at, u) ==
    [id |-> self.id,
     event_id |-> self.event_id,
     user_name |-> self.user_name,
     user_email |-> self.user_email,
     verification_token |-> self.verification_token,
     spot_count |-> self.spot_count,
     status |-> "Confirmed",
     created_at |-> self.created_at,
     updated_at |-> confirmed_at,
     verified_at |-> confirmed_at,
     reservation_tokens |->
        [k \in 1..self.spot_count |->
            ReservationToken_new(self.id, confirmed_at, u, 1)]]

\* A confirm that stamps created_at as well.
confirm_restamped(self, confirmed_at, u) ==
    [id |-> self.id,
     event_id |-> self.event_id,
     user_name |-> self.user_name,
     user_email |-> self.user_email,
     verification_token |-> self.verification_token,
     spot_count |-> self.spot_count,
     status |-> "Confirmed",
     created_at |-> confirmed_at,
     updated_at |-> confirmed_at,
     verified_at |-> confirmed_at,
     reservation_tokens |->
        [k \in 1..self.spot_count |->
            ReservationToken_new(self.id, confirmed_at, u, k)]]

\* CreatingReservation::create
create(self, created_at) ==
    [id |-> self.id,
     event_id |-> self.event_id,
     user_name |-> self.user_name,
     user_email |-> self.user_email,
     verification_token |-> self.verification_token,
     spot_count |-> self.spot_count,
     status |-> "Pending",
     created_at |-> created_at,
     updated_at |-> created_at]

\* PendingReservation::confirm
confirm(self, confirmed_at, u) ==
    [id |-> self.id,
     event_id |-> self.event_id,
     user_name |-> self.user_name,
     user_email |-> self.user_email,
     verification_token |-> self.verification_token,
     spot_count |-> self.spot_count,
     status |-> "Confirmed",
     created_at |-> self.created_at,
     updated_at |-> confirmed_at,
     verified_at |-> confirmed_at,
     reservation_tokens |->
        [k \in 1..self.spot_count |->
            ReservationToken_new(self.id, confirmed_at, u, k)]]

\* ReservationRow::to_pending_reservation
to_pending_reservation(row) ==
    [id |-> row.id,
     event_id |-> row.event_id,
     user_name |-> row.user_name,
     user_email |-> row.user_email,
     verification_token |-> row.verification_token,
     spot_count |-> row.spot_count,
     status |-> "Pending",
     created_at |-> row.created_at,
     updated_at |-> row.updated_at]

\* ------------------------------------------------------------ store reads
\* SELECT ... FROM events WHERE id = ? AND status = 'open'
\* A SELECT without the AND status = 'open'.
get_event_by_id_any_status(event_id) ==
    IF event_id \in DOMAIN events THEN {events[event_id]} ELSE {}

get_open_event_by_id(event_id) ==
    IF event_id \in DOMAIN events /\ events[event_id].status = "open"
    THEN {events[event_id]}
    ELSE {}

\* A count without the AND status = 'confirmed'.
count_event_reservations_any_status(event_id) ==
    Cardinality({row \in reservations : row.event_id = event_id})

\* SELECT COUNT(*) FROM reservations WHERE event_id = ? AND status = 'confirmed'
count_event_reservations(event_id) ==
    Cardinality({row \in reservations :
                    row.event_id = event_id /\ row.status = "confirmed"})

\* Database::check_open_event_capacity: an event that is not stored open has
\* EventNotFound for a result, here FALSE
check_open_event_capacity(event_id) ==
    \E event \in get_open_event_by_id(event_id) :
        count_event_reservations(event_id) < event.capacity

\* SELECT ... FROM reservations WHERE id = ? AND status = 'pending'
get_pending_reservation_by_id(reservation_id) ==
    {row \in reservations : row.id = reservation_id /\ row.status = "pending"}

\* SELECT ... FROM reservations WHERE id = ? AND status = 'confirmed'
get_confirmed_reservation_by_id(reservation_id) ==
    {row \in reservations : row.id = reservation_id /\ row.status = "confirmed"}

\* A lookup without the AND status = 'pending'.
get_pending_reservation_by_verification_token_any_status(token) ==
    {row \in reservations : row.verification_token = token}

\* SELECT ... FROM reservations WHERE verification_token = ? AND status = 'pending'
get_pending_reservation_by_verification_token(token) ==
    {row \in reservations :
        row.verification_token = token /\ row.status = "pending"}

\* SELECT ... FROM reservations WHERE verification_token = ? AND status = 'confirmed'
get_confirmed_reservation_by_verification_token(token) ==
    {row \in reservations :
        row.verification_token = token /\ row.status = "confirmed"}

\* Database::get_confirmed_reservation_by_reservation_token:
\*   SELECT reservation_id FROM reservation_tokens
\*     WHERE token = ? AND status = 'active'
\*   SELECT id, event_id, user_name, user_email, status, verification_token,
\*          created_at, updated_at, verified_at
\*     FROM reservations WHERE id = ? AND status = 'confirmed'
\* The second SELECT lists no spot_count column, which ReservationRow
\* (sqlx::FromRow) has for a field: a row it finds fails to decode and the
\* query ends in sqlx::Error (ColumnNotFound).
get_confirmed_reservation_by_reservation_token(token) ==
    LET ids == {t.reservation_id :
                    t \in {x \in reservation_tokens :
                                x.token = token /\ x.status = "active"}}
        rows == {row \in reservations :
                    row.id \in ids /\ row.status = "confirmed"}
    IN IF ids = {} \/ rows = {}
          THEN [result |-> "ReservationNotFound", rows |-> {}]
          ELSE [result |-> ColumnNotFound, rows |-> {}]

\* ------------------------------------------------------------------ Init
\* The store holds the events (create_event inserts them with status 'open')
\* and no reservation yet; no request has arrived.
Init ==
    /\ events \in [EventIds -> [id : EventIds, name : {"Test Event"},
                                 capacity : Capacities, status : {"open"}]]
    /\ \A e \in EventIds : events[e].id = e
    /\ reservations = {}
    /\ reservation_tokens = {}
    /\ outbox = {}
    /\ inflight = EmptyBag
    /\ reply = <<"none", "none">>
    /\ scanned = EmptyBag
    /\ uuids = 0
    /\ issued = 0

\* ------------------------------------------------------- request plumbing
Frames == BagToSet(inflight)

\* A request is accepted and its handler starts.
Accept ==
    /\ BagCardinality(inflight) < MaxInFlight
    /\ issued < MaxRequests
    /\ issued' = issued + 1

\* The response of a handler.
Respond(route, result) == reply' = <<route, result>>

\* A handler that has just started goes on to its next statement.
Spawn(frame) == inflight' = inflight (+) SetToBag({frame})

\* A handler in flight goes on to its next statement.
Step(f, frame) == inflight' = (inflight (-) SetToBag({f})) (+) SetToBag({frame})

\* A handler in flight returns.
Return(f) == inflight' = inflight (-) SetToBag({f})

\* ------------------------------------------------------------------- scan
\* UPDATE reservation_tokens SET status = 'used', used_at = ?
\*   WHERE token = ? AND status = 'active'
mark_used_matches_any_status(token) ==
    {t \in reservation_tokens : t.token = token}

mark_used_matches(token) ==
    {t \in reservation_tokens : t.token = token /\ t.status = "active"}

\* An UPDATE without the AND status = 'active'.
mark_used_rows_unguarded(token, now) ==
    {IF t.token = token
        THEN [t EXCEPT !.status = "used", !.used_at = now]
        ELSE t : t \in reservation_tokens}

\* An UPDATE that gives a token that is not active back.
mark_used_rows_toggle(token, now) ==
    {IF t.token = token
        THEN IF t.status = "active"
                THEN [t EXCEPT !.status = "used", !.used_at = now]
                ELSE [t EXCEPT !.status = "active", !.used_at = NULL]
        ELSE t : t \in reservation_tokens}

\* An UPDATE that also writes the reservation_id column.
mark_used_rows_rebound(token, now) ==
    {IF t \in mark_used_matches(token)
        THEN [t EXCEPT !.status = "used", !.used_at = now, !.reservation_id = 0]
        ELSE t : t \in reservation_tokens}

\* An UPDATE that writes status = 'expired'.
mark_used_rows_expired(token, now) ==
    {IF t \in mark_used_matches(token)
        THEN [t EXCEPT !.status = "expired", !.used_at = now]
        ELSE t : t \in reservation_tokens}

\* An UPDATE that matches on the reservation of the token.
mark_used_rows_siblings(token, now) ==
    {IF \E m \in mark_used_matches(token) : m.reservation_id = t.reservation_id
        THEN [t EXCEPT !.status = "used", !.used_at = now]
        ELSE t : t \in reservation_tokens}

mark_used_rows(token, now) ==
    {IF t \in mark_used_matches(token)
        THEN [t EXCEPT !.status = "used", !.used_at = now]
        ELSE t : t \in reservation_tokens}

rows_affected(token) == Cardinality(mark_used_matches(token))

\* Database::mark_reservation_token_used: its result
mark_reservation_token_used(token) ==
    IF rows_affected(token) = 0 THEN "TokenInvalid" ELSE "Ok"

\* GET /scan/{token}: scan_reservation_token, whose only statement is the
\* UPDATE of db.mark_reservation_token_used(&token).await?
scan_reservation_token ==
    /\ Accept
    /\ \E token \in {t.token : t \in reservation_tokens} \cup {BogusReservationToken} :
        /\ reservation_tokens' = mark_used_rows(token, now_utc)
        /\ scanned' = scanned (+) SetToBag({<<token, mark_reservation_token_used(token)>>})
        /\ Respond("scan", mark_reservation_token_used(token))
    /\ UNCHANGED <<events, reservations, outbox, inflight, uuids>>

\* ----------------------------------------------------------------- reserve
\* api::ReserveRequest, #[validate(range(min = 1, max = 10000))] spot_count
SpotCountMin == 1
SpotCountMax == 10000

validate(payload) ==
    payload.spot_count >= SpotCountMin /\ payload.spot_count <= SpotCountMax

\* reserve: the two admission tests on current_count
reserve_admission(current_count, spot_count, capacity) ==
    IF current_count > capacity
    THEN "Validation: Event is at full capacity"
    ELSE IF current_count + spot_count > capacity
         THEN "Validation: Cannot reserve this many slots for this event"
         ELSE "Ok"

\* POST /reserve: reserve, from payload.validate()? through
\* db.get_open_event_by_id and db.count_event_reservations to the admission
\* tests.  (No handler writes the events table, so the two reads are one
\* step.)
reserve ==
    /\ Accept
    /\ \E event_id \in EventIds \cup {UnknownEvent}, user_name \in UserNames,
          user_email \in Emails, spot_count \in 0..MaxSpots :
        LET payload == [event_id |-> event_id, user_name |-> user_name,
                        user_email |-> user_email,
                        spot_count |-> spot_count]
            found == get_open_event_by_id(payload.event_id)
        IN IF ~validate(payload)
              THEN /\ reply' = <<"reserve", "Validation: payload", event_id>>
                   /\ UNCHANGED inflight
              ELSE IF found = {}
                 THEN /\ reply' = <<"reserve", "EventNotFound", event_id>>
                      /\ UNCHANGED inflight
                 ELSE \E event \in found :
                    LET admission == reserve_admission(
                            count_event_reservations(event.id),
                            payload.spot_count, event.capacity)
                    IN IF admission # "Ok"
                          THEN /\ reply' = <<"reserve", admission, event_id>>
                               /\ UNCHANGED inflight
                          ELSE /\ Spawn([pc |-> "reserve_insert", payload |-> payload])
                               /\ UNCHANGED reply
    /\ UNCHANGED <<events, reservations, reservation_tokens, outbox, scanned, uuids>>

\* INSERT INTO reservations (..., status, verification_token, verified_at)
\*   VALUES (..., 'pending', ?, NULL)
\* ("timestamps handled by database": created_at and updated_at are the time
\* of the statement)
\* An INSERT that binds no user_name.
insert_row_anonymous(creating) ==
    [id |-> creating.id,
     event_id |-> creating.event_id,
     user_name |-> "",
     user_email |-> creating.user_email,
     spot_count |-> creating.spot_count,
     status |-> "pending",
     verification_token |-> creating.verification_token,
     created_at |-> now_utc,
     updated_at |-> now_utc,
     verified_at |-> NULL]

insert_row(creating) ==
    [id |-> creating.id,
     event_id |-> creating.event_id,
     user_name |-> creating.user_name,
     user_email |-> creating.user_email,
     spot_count |-> creating.spot_count,
     status |-> "pending",
     verification_token |-> creating.verification_token,
     created_at |-> now_utc,
     updated_at |-> now_utc,
     verified_at |-> NULL]

\* reserve -> Database::insert_reservation( CreatingReservation::prepare(..) ),
\* the INSERT
insert_reservation ==
    /\ \E f \in Frames :
        /\ f.pc = "reserve_insert"
        /\ LET creating == prepare(f.payload.event_id, f.payload.user_name,
                                   f.payload.user_email,
                                   f.payload.spot_count, uuids)
           IN /\ uuids' = uuids + 2
              /\ reservations' = reservations \cup {insert_row(creating)}
              /\ Step(f, [pc |-> "reserve_fetch", creating |-> creating])
    /\ UNCHANGED <<events, reservation_tokens, outbox, reply, scanned, issued>>

\* email::send_verification / email::send_confirmation: the email sent, if any
send_email(subject, reservation) ==
    IF is_valid_email(reservation.user_email)
    THEN {[kind |-> subject,
           reservation_id |-> reservation.id,
           token |-> reservation.verification_token]}
    ELSE {}

\* Database::insert_reservation, the fetch of the inserted row
\* (self.get_pending_reservation_by_id), then reserve:
\* state.email_sender.send_verification(&user_email, &verification_token).await?
send_verification ==
    /\ \E f \in Frames :
        /\ f.pc = "reserve_fetch"
        /\ LET rows == get_pending_reservation_by_id(f.creating.id)
           IN IF rows = {}
                 THEN /\ UNCHANGED outbox
                      /\ Respond("reserve", "ReservationNotFound")
                 ELSE \E row \in rows :
                        LET sent == send_email("verification", to_pending_reservation(row))
                        IN /\ outbox' = outbox \cup sent
                           /\ Respond("reserve", IF sent = {} THEN "InvalidEmail" ELSE "Ok")
        /\ Return(f)
    /\ UNCHANGED <<events, reservations, reservation_tokens, scanned, uuids, issued>>

\* ------------------------------------------------------------------ verify
\* GET /verify/{token}: verify_email, the lookup of the pending reservation
\* (db.get_pending_reservation_by_verification_token) and, in its Err(_) arm,
\* db.get_confirmed_reservation_by_verification_token.  (A row never leaves
\* 'confirmed' and never changes its token, so the second lookup finds what
\* it would have found at the time of the first.)
\* A verify_email whose two Err(_) arms both end in AppError::not_found().
verify_lookup_not_found(token) ==
    IF get_pending_reservation_by_verification_token(token) # {}
    THEN "Pending"
    ELSE "NotFound"

\* verify_email, the match on the two lookups: Ok(res) of the first, or in
\* its Err(_) arm Ok(_) or Err(_) of the second
verify_lookup(token) ==
    IF get_pending_reservation_by_verification_token(token) # {}
    THEN "Pending"
    ELSE IF get_confirmed_reservation_by_verification_token(token) # {}
         THEN "Validation: Reservation already confirmed"
         ELSE "NotFound"

verify_email ==
    /\ Accept
    /\ \E token \in {row.verification_token : row \in reservations}
                        \cup {BogusVerificationToken} :
        IF verify_lookup(token) = "Pending"
           THEN /\ \E row \in get_pending_reservation_by_verification_token(token) :
                     Spawn([pc |-> "verify_update",
                            pending |-> to_pending_reservation(row)])
                /\ UNCHANGED reply
           ELSE /\ reply' = <<"verify", verify_lookup(token), token>>
                /\ UNCHANGED inflight
    /\ UNCHANGED <<events, reservations, reservation_tokens, outbox, scanned, uuids>>

\* UPDATE reservations SET status = 'confirmed', verified_at = ? WHERE id = ?
\* An UPDATE that writes nothing.
confirm_update_rows_none(id, verified_at) == reservations

\* An UPDATE that binds no verified_at.
confirm_update_rows_unstamped(id, verified_at) ==
    {IF row.id = id
        THEN [row EXCEPT !.status = "confirmed"]
        ELSE row : row \in reservations}

\* An UPDATE without the WHERE id = ?.
confirm_update_rows_all(id, verified_at) ==
    {[row EXCEPT !.status = "confirmed", !.verified_at = verified_at] :
        row \in reservations}

\* An UPDATE that also writes the verification_token column.
confirm_update_rows_retoken(id, verified_at) ==
    {IF row.id = id
        THEN [row EXCEPT !.status = "confirmed", !.verified_at = verified_at,
                         !.verification_token = BogusVerificationToken]
        ELSE row : row \in reservations}

confirm_update_rows_toggle(id, verified_at) ==
    {IF row.id = id
        THEN IF row.status = "pending"
                THEN [row EXCEPT !.status = "confirmed", !.verified_at = verified_at]
                ELSE [row EXCEPT !.status = "pending", !.verified_at = NULL]
        ELSE row : row \in reservations}

confirm_update_rows(id, verified_at) ==
    {IF row.id = id
        THEN [row EXCEPT !.status = "confirmed", !.verified_at = verified_at]
        ELSE row : row \in reservations}

\* Database::confirm_reservation: pending.confirm(now) and the UPDATE
confirm_reservation ==
    /\ \E f \in Frames :
        /\ f.pc = "verify_update"
        /\ LET confirmed == confirm(f.pending, now_utc, uuids)
           IN /\ uuids' = uuids + Len(confirmed.reservation_tokens)
              /\ reservations' = confirm_update_rows(confirmed.id, confirmed.verified_at)
              /\ IF Len(confirmed.reservation_tokens) = 0
                    THEN Step(f, [pc |-> "verify_email", confirmed |-> confirmed])
                    ELSE Step(f, [pc |-> "verify_insert", confirmed |-> confirmed, i |-> 1])
    /\ UNCHANGED <<events, reservation_tokens, outbox, reply, scanned, issued>>

\* INSERT INTO reservation_tokens (id, reservation_id, token, status)
\*   VALUES (?, ?, ?, 'active')
\* (the row's own id, one more Uuid::new_v4(), is read by no query's consumer
\* and is left out)
\* An INSERT that binds the id of no reservation.
token_row_orphan(reservation_id, token) ==
    [reservation_id |-> 0,
     token |-> token,
     status |-> "active",
     used_at |-> NULL]

token_row(reservation_id, token) ==
    [reservation_id |-> reservation_id,
     token |-> token,
     status |-> "active",
     used_at |-> NULL]

\* A loop that does not go on to its next turn.
confirm_insert_token_stuck ==
    /\ \E f \in Frames :
        /\ f.pc = "verify_insert"
        /\ reservation_tokens' = reservation_tokens \cup
                {token_row(f.confirmed.id, f.confirmed.reservation_tokens[f.i].token)}
        /\ Step(f, f)
    /\ UNCHANGED <<events, reservations, outbox, reply, scanned, uuids, issued>>

\* Database::confirm_reservation: one turn of the loop over
\* confirmed.status.reservation_tokens; after the last turn Ok(confirmed)
confirm_insert_token ==
    /\ \E f \in Frames :
        /\ f.pc = "verify_insert"
        /\ reservation_tokens' = reservation_tokens \cup
                {token_row(f.confirmed.id, f.confirmed.reservation_tokens[f.i].token)}
        /\ IF f.i < Len(f.confirmed.reservation_tokens)
              THEN Step(f, [f EXCEPT !.i = f.i + 1])
              ELSE Step(f, [pc |-> "verify_email", confirmed |-> f.confirmed])
    /\ UNCHANGED <<events, reservations, outbox, reply, scanned, uuids, issued>>

\* A send_confirmation whose failure undoes the confirm.
send_confirmation_rollback ==
    /\ \E f \in Frames :
        /\ f.pc = "verify_email"
        /\ LET sent == send_email("confirmation", f.confirmed)
           IN /\ outbox' = outbox \cup sent
              /\ Respond("verify", IF sent = {} THEN "InvalidEmail" ELSE "Ok")
              /\ IF sent = {}
                    THEN /\ reservations' =
                                {IF row.id = f.confirmed.id
                                    THEN [row EXCEPT !.status = "pending",
                                                     !.verified_at = NULL]
                                    ELSE row : row \in reservations}
                         /\ reservation_tokens' =
                                {t \in reservation_tokens :
                                    t.reservation_id # f.confirmed.id}
                    ELSE UNCHANGED <<reservations, reservation_tokens>>
        /\ Return(f)
    /\ UNCHANGED <<events, scanned, uuids, issued>>

\* verify_email: state.email_sender.send_confirmation(&user_email, &confirmed).await?
send_confirmation ==
    /\ \E f \in Frames :
        /\ f.pc = "verify_email"
        /\ LET sent == send_email("confirmation", f.confirmed)
           IN /\ outbox' = outbox \cup sent
              /\ Respond("verify", IF sent = {} THEN "InvalidEmail" ELSE "Ok")
        /\ Return(f)
    /\ UNCHANGED <<events, reservations, reservation_tokens, scanned, uuids, issued>>

\* ----------------------------------------------------------- store failure
\* The route a handler position belongs to.
Route(f) ==
    IF f.pc \in {"reserve_insert", "reserve_fetch"} THEN "reserve" ELSE "verify"

\* Every query of reserve, scan_reservation_token and confirm_reservation
\* ends in `.await?`: a statement the store fails to execute (sqlx::Error)
\* changes nothing and ends the handler with the error, be it the first
\* statement of a handler or a later one.  The two lookups of verify_email
\* are matched instead: Err(_) of the first leads to the second, Err(_) of
\* the second to AppError::not_found().
StoreFailure ==
    /\ \/ /\ Accept
          /\ \E route \in {"reserve", "verify", "scan"}, error \in SqlxErrors :
                Respond(route, IF route = "verify" THEN "NotFound" ELSE error)
          /\ UNCHANGED inflight
       \/ /\ \E f \in Frames, error \in SqlxErrors :
                /\ f.pc \in {"reserve_insert", "reserve_fetch", "verify_update", "verify_insert"}
                /\ Respond(Route(f), error)
                /\ Return(f)
          /\ UNCHANGED issued
    /\ UNCHANGED <<events, reservations, reservation_tokens, outbox, scanned, uuids>>

\* ---------------------------------------------------------------- responses
\* The results that are AppError::Validation(msg).
ValidationResults ==
    {"Validation: payload",
     "Validation: Event is at full capacity",
     "Validation: Cannot reserve this many slots for this event",
     "Validation: Reservation already confirmed",
     "Validation: Reservation must be confirmed before it can be retrieved"}

\* The values of DatabaseError that are neither EventNotFound nor
\* ReservationNotFound: the arm AppError::Database(_).
OtherDatabaseErrors == {"TokenInvalid"} \cup SqlxErrors \cup EnvErrors

\* An into_response whose AppError::Database(_) arm answers with the text of
\* the error.
into_response_echo(result) ==
    CASE result = "Ok" -> [status |-> 200, error |-> NULL]
      [] result = "EventNotFound" -> [status |-> 404, error |-> "Event not found"]
      [] result = "ReservationNotFound" ->
            [status |-> 404, error |-> "Reservation not found"]
      [] result \in OtherDatabaseErrors -> [status |-> 500, error |-> result]
      [] result = "InvalidEmail" ->
            [status |-> 400, error |-> "Invalid email address"]
      [] result \in ValidationResults -> [status |-> 400, error |-> result]
      [] result = "NotFound" -> [status |-> 404, error |-> "Resource not found"]

\* AppError::into_response: the status code and the "error" text of the body;
\* Ok(Json(response)) is 200 with the response for a body.
into_response(result) ==
    CASE result = "Ok" -> [status |-> 200, error |-> NULL]
      [] result = "EventNotFound" -> [status |-> 404, error |-> "Event not found"]
      [] result = "ReservationNotFound" ->
            [status |-> 404, error |-> "Reservation not found"]
      [] result \in OtherDatabaseErrors ->
            [status |-> 500, error |-> "Internal server error"]
      [] result = "InvalidEmail" ->
            [status |-> 400, error |-> "Invalid email address"]
      [] result \in ValidationResults -> [status |-> 400, error |-> result]
      [] result = "NotFound" -> [status |-> 404, error |-> "Resource not found"]

\* -------------------------------------------------------------------- Next
Next ==
    \/ reserve
    \/ verify_email
    \/ scan_reservation_token
    \/ insert_reservation
    \/ send_verification
    \/ confirm_reservation
    \/ confirm_insert_token
    \/ send_confirmation

Spec == Init /\ [][Next]_vars

\* The program on a runtime that goes on polling every handler in flight
\* (tokio runs every spawned task that is ready), the store and the email
\* provider answering every call: no handler stays at a statement forever.
SpecLive ==
    /\ Spec
    /\ WF_vars(insert_reservation)
    /\ WF_vars(send_verification)
    /\ WF_vars(confirm_reservation)
    /\ WF_vars(confirm_insert_token)
    /\ WF_vars(send_confirmation)

\* The same with statements that fail.
SpecFail == Init /\ [][Next \/ StoreFailure]_vars

\* -------------------------------------------------------------- event read
\* GET /events/{id}: get_event_by_id, whose only statement is the SELECT of
\* db.get_open_event_by_id; the response reports
\* status: api::EventStatus::Open for every event the SELECT returns.
get_event_by_id ==
    /\ Accept
    /\ \E event_id \in EventIds \cup {UnknownEvent} :
        LET found == get_open_event_by_id(event_id)
        IN IF found = {}
              THEN reply' = <<"event", "EventNotFound", event_id>>
              ELSE \E event \in found : reply' = <<"event", "Open", event.id>>
    /\ UNCHANGED <<events, reservations, reservation_tokens, outbox, inflight,
                   scanned, uuids>>

\* The program with the reads of events.
SpecEvents == Init /\ [][Next \/ get_event_by_id]_vars

\* ------------------------------------------------------------ event update
\* An UPDATE without the AND status = 'open'.
update_event_rows_any_status(event_id, name, capacity) ==
    [e \in DOMAIN events |->
        IF e = event_id
        THEN [events[e] EXCEPT !.name = name, !.capacity = capacity]
        ELSE events[e]]

\* UPDATE events SET name = ?, ..., capacity = ?, ...
\*   WHERE id = ? AND status = 'open'
update_event_rows(event_id, name, capacity) ==
    [e \in DOMAIN events |->
        IF e = event_id /\ events[e].status = "open"
        THEN [events[e] EXCEPT !.name = name, !.capacity = capacity]
        ELSE events[e]]

\* Database::update_event: the UPDATE, then self.get_open_event_by_id, whose
\* result the UPDATE does not change.
update_event ==
    /\ Accept
    /\ \E event_id \in EventIds \cup {UnknownEvent}, name \in EventNames,
          capacity \in Capacities :
        /\ events' = update_event_rows(event_id, name, capacity)
        /\ reply' = <<"update",
                      IF get_open_event_by_id(event_id) = {}
                         THEN "EventNotFound" ELSE "Ok",
                      event_id>>
    /\ UNCHANGED <<reservations, reservation_tokens, outbox, inflight,
                   scanned, uuids>>

\* open -> not open: no statement of the program writes the status column
\* of events after create_event; rows that are not 'open', which
\* get_open_event_by_id and update_event provide for, are written outside
\* the program.
close_event ==
    /\ \E e \in DOMAIN events :
        /\ events[e].status = "open"
        /\ events' = [events EXCEPT ![e].status = "finished"]
    /\ UNCHANGED <<reservations, reservation_tokens, outbox, inflight, reply,
                   scanned, uuids, issued>>

\* The program next to whatever closes events.
SpecClose == Init /\ [][Next \/ close_event]_vars

\* The event operations next to whatever closes events.
SpecUpdate == Init /\ [][update_event \/ get_event_by_id \/ close_event]_vars

\* ---------------------------------------------------------------- retrieve
UnknownReservation == 0

\* A conversion whose `_` arm treats an unknown status as active.
to_any_reservation_token_open(row) ==
    CASE row.status = "active" -> <<row.token, "Active">>
      [] row.status = "used" -> <<row.token, "Used">>
      [] row.status = "expired" -> <<row.token, "Expired">>
      [] OTHER -> <<row.token, "Active">>

\* ReservationTokenRow::to_any_reservation_token: the typestate a row is
\* exposed with; the `_` arm treats an unknown status as expired.
to_any_reservation_token(row) ==
    CASE row.status = "active" -> <<row.token, "Active">>
      [] row.status = "used" -> <<row.token, "Used">>
      [] row.status = "expired" -> <<row.token, "Expired">>
      [] OTHER -> <<row.token, "Expired">>

\* Database::get_reservation_tokens_by_reservation_id:
\*   SELECT ... FROM reservation_tokens WHERE reservation_id = ?
\* and the match on row.status of its closure
get_reservation_tokens_by_reservation_id(reservation_id) ==
    {CASE row.status = "active" -> <<row.token, "Active">>
       [] row.status = "used" -> <<row.token, "Used">>
       [] row.status = "expired" -> <<row.token, "Expired">>
       [] OTHER -> <<row.token, "Expired">> :
        row \in {t \in reservation_tokens : t.reservation_id = reservation_id}}

\* GET /retrieve/{magic_token}: get_reservation_by_magic_token, the SELECT of
\* db.get_confirmed_reservation_by_id; its Err(_) arm goes on to the pending
\* lookup.
get_reservation_by_magic_token ==
    /\ Accept
    /\ \E reservation_id \in {row.id : row \in reservations}
                                \cup {UnknownReservation} :
        LET rows == get_confirmed_reservation_by_id(reservation_id)
        IN IF rows # {}
              THEN \E row \in rows :
                        Spawn([pc |-> "retrieve_tokens", row |-> row])
              ELSE Spawn([pc |-> "retrieve_pending",
                          reservation_id |-> reservation_id])
    /\ UNCHANGED <<events, reservations, reservation_tokens, outbox, reply,
                   scanned, uuids>>

\* get_reservation_by_magic_token, the Err(_) arm:
\* db.get_pending_reservation_by_id(..).await.is_ok()
retrieve_pending ==
    /\ \E f \in Frames :
        /\ f.pc = "retrieve_pending"
        /\ reply' = <<"retrieve",
                      IF get_pending_reservation_by_id(f.reservation_id) # {}
                      THEN "Validation: Reservation must be confirmed before it can be retrieved"
                      ELSE "NotFound",
                      f.reservation_id>>
        /\ Return(f)
    /\ UNCHANGED <<events, reservations, reservation_tokens, outbox, scanned,
                   uuids, issued>>

\* ReservationRow::to_confirmed_reservation, called by
\* db.get_confirmed_reservation_by_id: self.get_reservation_tokens(db) and
\* self.verified_at.unwrap(), which panics on a row without verified_at
retrieve_tokens ==
    /\ \E f \in Frames :
        /\ f.pc = "retrieve_tokens"
        /\ IF f.row.verified_at = NULL
              THEN /\ reply' = <<"retrieve", "Panic", f.row.id>>
                   /\ Return(f)
              ELSE /\ Step(f, [pc |-> "retrieve_event",
                               row |-> f.row,
                               reservation_tokens |->
                                   get_reservation_tokens_by_reservation_id(f.row.id)])
                   /\ UNCHANGED reply
    /\ UNCHANGED <<events, reservations, reservation_tokens, outbox, scanned,
                   uuids, issued>>

\* get_reservation_by_magic_token, the response:
\* db.get_open_event_by_id(&confirmed_reservation.event_id).await? and
\* Ok(Json(response)) with the tokens and their state names
retrieve_event ==
    /\ \E f \in Frames :
        /\ f.pc = "retrieve_event"
        /\ reply' = IF get_open_event_by_id(f.row.event_id) = {}
                       THEN <<"retrieve", "EventNotFound", f.row.id>>
                       ELSE <<"retrieve", "Ok", f.row.id, f.reservation_tokens>>
        /\ Return(f)
    /\ UNCHANGED <<events, reservations, reservation_tokens, outbox, scanned,
                   uuids, issued>>

\* The program with the route /retrieve.
SpecRetrieve ==
    Init /\ [][Next \/ get_reservation_by_magic_token \/ retrieve_pending
                    \/ retrieve_tokens \/ retrieve_event]_vars

\* ------------------------------------------------ the typestates, alone
\* CreatingReservation::prepare, CreatingReservation::create and
\* PendingReservation::confirm are public and pure (but for the uuids they
\* draw); here a caller applies them one after the other to the reservation
\* it holds, one reservation at a time, at times of its choice.
typestate_prepare ==
    /\ Accept
    /\ inflight = EmptyBag
    /\ \E event_id \in EventIds, user_name \in UserNames, user_email \in Emails,
          spot_count \in 0..MaxSpots :
        Spawn([pc |-> "creating",
               creating |-> prepare(event_id, user_name, user_email,
                                    spot_count, uuids)])
    /\ uuids' = uuids + 2
    /\ UNCHANGED <<events, reservations, reservation_tokens, outbox, reply, scanned>>

typestate_create ==
    /\ \E f \in Frames, created_at \in Times :
        /\ f.pc = "creating"
        /\ Step(f, [pc |-> "pending",
                    creating |-> f.creating,
                    created_at |-> created_at,
                    pending |-> create(f.creating, created_at)])
    /\ UNCHANGED <<events, reservations, reservation_tokens, outbox, reply,
                   scanned, uuids, issued>>

typestate_confirm ==
    /\ \E f \in Frames, confirmed_at \in Times :
        /\ f.pc = "pending"
        /\ Step(f, [pc |-> "confirmed",
                    pending |-> f.pending,
                    confirmed_at |-> confirmed_at,
                    confirmed |-> confirm(f.pending, confirmed_at, uuids)])
        /\ uuids' = uuids + f.pending.spot_count
    /\ UNCHANGED <<events, reservations, reservation_tokens, outbox, reply,
                   scanned, issued>>

\* The caller drops the reservation it holds.
typestate_drop ==
    /\ \E f \in Frames :
        /\ f.pc = "confirmed"
        /\ Return(f)
    /\ UNCHANGED <<events, reservations, reservation_tokens, outbox, reply,
                   scanned, uuids, issued>>

SpecTypestate ==
    Init /\ [][typestate_prepare \/ typestate_create \/ typestate_confirm
                    \/ typestate_drop]_vars

\* ------------------------------------------------- insert_reservation, alone
\* Database::insert_reservation is public and takes any CreatingReservation,
\* without the checks of reserve: the result of prepare, which takes any
\* spot_count and returns Self, or one built field by field as in
\* tests::test_database_operations, whose token the caller chooses, a stored
\* one included.
DirectSpotCounts == 0..(MaxSpots + 1)

\* What the INSERT does with a verification_token that is already stored
\* depends on the schema (./migrations, not part of the sources): with a
\* UNIQUE constraint the statement fails with sqlx::Error, which `?` turns
\* into DatabaseError::SqlxError; without one the row is inserted.
InsertOutcomes(creating) ==
    IF \E row \in reservations :
            row.verification_token = creating.verification_token
    THEN {UniqueViolation, "Ok"}
    ELSE {"Ok"}

\* Database::insert_reservation(creating), the INSERT
insert_direct ==
    /\ Accept
    /\ \E event_id \in EventIds, spot_count \in DirectSpotCounts,
          token \in {VerificationToken_new(uuids, 2)}
                        \cup {row.verification_token : row \in reservations} :
        LET creating == [prepare(event_id, "John Doe", "ann@example.com",
                                 spot_count, uuids)
                            EXCEPT !.verification_token = token]
        IN \E outcome \in InsertOutcomes(creating) :
            IF outcome = "Ok"
            THEN /\ reservations' = reservations \cup {insert_row(creating)}
                 /\ Spawn([pc |-> "insert_fetch", creating |-> creating])
                 /\ UNCHANGED reply
            ELSE /\ Respond("insert", outcome)
                 /\ UNCHANGED <<reservations, inflight>>
    /\ uuids' = uuids + 2
    /\ UNCHANGED <<events, reservation_tokens, outbox, scanned>>

\* Database::insert_reservation, the fetch of the inserted row:
\* self.get_pending_reservation_by_id(&reservation.id).await
insert_fetch ==
    /\ \E f \in Frames :
        /\ f.pc = "insert_fetch"
        /\ Respond("insert",
                   IF get_pending_reservation_by_id(f.creating.id) = {}
                   THEN "ReservationNotFound" ELSE "Ok")
        /\ Return(f)
    /\ UNCHANGED <<events, reservations, reservation_tokens, outbox, scanned,
                   uuids, issued>>

\* The program next to a caller of Database::insert_reservation.
SpecInsert == Init /\ [][Next \/ insert_direct \/ insert_fetch]_vars

\* ------------------------------------------------- rows of other writers
\* The readers provide for rows the program never writes: a status column
\* is TEXT and the conversions have a `_` arm.  Such rows come from another
\* writer of the database.
RowStatuses == {"pending", "confirmed", "cancelled"}
TokenStatuses == {"active", "used", "expired", "revoked"}

\* db::reservation_from_row: the typestate a reservation row is exposed with
reservation_from_row(row) ==
    CASE row.status = "pending" -> "Pending"
      [] row.status = "confirmed" /\ row.verified_at # NULL -> "Confirmed"
      [] OTHER -> "Pending"

foreign_reservation ==
    /\ Accept
    /\ \E event_id \in EventIds, status \in RowStatuses,
          verified_at \in {NULL, now_utc} :
        reservations' = reservations \cup
            {[insert_row(prepare(event_id, "John Doe", "ann@example.com", 1, uuids))
                EXCEPT !.status = status, !.verified_at = verified_at]}
    /\ uuids' = uuids + 2
    /\ UNCHANGED <<events, reservation_tokens, outbox, inflight, reply, scanned>>

foreign_token ==
    /\ Accept
    /\ \E row \in reservations, status \in TokenStatuses :
        reservation_tokens' = reservation_tokens \cup
            {[token_row(row.id, ReservationToken_new(row.id, now_utc, uuids, 1).token)
                EXCEPT !.status = status,
                       !.used_at = IF status = "used" THEN now_utc ELSE NULL]}
    /\ uuids' = uuids + 1
    /\ UNCHANGED <<events, reservations, outbox, inflight, reply, scanned>>

\* reservation_from_row(row, db) on a row read from the store
load_reservation ==
    /\ Accept
    /\ \E row \in reservations :
        reply' = <<"load", reservation_from_row(row), row.id>>
    /\ UNCHANGED <<events, reservations, reservation_tokens, outbox, inflight,
                   scanned, uuids>>

\* row.to_any_reservation_token() on a row read from the store
load_token ==
    /\ Accept
    /\ \E row \in reservation_tokens :
        reply' = <<"token", to_any_reservation_token(row)[2],
                   to_any_reservation_token(row)[1]>>
    /\ UNCHANGED <<events, reservations, reservation_tokens, outbox, inflight,
                   scanned, uuids>>

\* The readers of the store next to another writer of it.
SpecRows ==
    Init /\ [][foreign_reservation \/ foreign_token
                    \/ load_reservation \/ load_token
                    \/ get_reservation_by_magic_token \/ retrieve_pending
                    \/ retrieve_tokens \/ retrieve_event]_vars

\* ------------------------------------------------------------ token expiry
\* Active -> Expired: no handler performs it; the rows are written with
\* status 'active' and the readers (to_any_reservation_token,
\* get_reservation_tokens_by_reservation_id, the WHERE status = 'active' of
\* the scan) provide for rows whose status is 'expired', set by a policy
\* outside the program.
expire_token ==
    /\ \E t \in reservation_tokens :
        /\ t.status = "active"
        /\ reservation_tokens' =
                (reservation_tokens \ {t}) \cup {[t EXCEPT !.status = "expired"]}
    /\ UNCHANGED <<events, reservations, outbox, inflight, reply, scanned, uuids, issued>>

\* The program next to a policy that expires tokens.
SpecExpiry == Init /\ [][Next \/ expire_token]_vars

\* ===================================================================
\* Vocabulary of the properties
\* ===================================================================
RECURSIVE SumSpots(_)
SumSpots(rows) ==
    IF rows = {} THEN 0
    ELSE LET row == CHOOSE x \in rows : TRUE
         IN row.spot_count + SumSpots(rows \ {row})

\* sum of spot_count over the Confirmed reservations of the event
confirmed_seat_count(event_id) ==
    SumSpots({row \in reservations :
                row.event_id = event_id /\ row.status = "confirmed"})

TokensOf(reservation_id) ==
    {t \in reservation_tokens : t.reservation_id = reservation_id}

RowOf(reservation_id) ==
    {row \in reservations : row.id = reservation_id}

\* the handler with frame f takes this step
Stepped(f) == CopiesIn(f, inflight') < CopiesIn(f, inflight)

\* a verify handler that has executed its UPDATE
PastUpdate(f) == f.pc \in {"verify_insert", "verify_email"}

\* ===================================================================
\* Properties
\* ===================================================================

\* C1: capacity invariant: in every reachable state, for every event E, the
\* sum of spot_count over the Confirmed reservations of E is at most
\* E.capacity.
CapacityInvariant ==
    \A e \in EventIds : confirmed_seat_count(e) <= events[e].capacity

\* C2: race at confirm time: of verify handlers running at the same time on
\* different Pending reservations of one event whose spot_counts together
\* exceed the capacity, not all reach Confirmed (with capacity 1 and two
\* reservations of 1 spot, exactly one is Confirmed, the other stays Pending).
RaceAtConfirm ==
    \A f \in Frames, g \in Frames :
        (/\ PastUpdate(f) /\ PastUpdate(g)
         /\ f.confirmed.id # g.confirmed.id
         /\ f.confirmed.event_id = g.confirmed.event_id
         /\ f.confirmed.spot_count + g.confirmed.spot_count
                > events[f.confirmed.event_id].capacity)
        => ~(/\ \A row \in RowOf(f.confirmed.id) : row.status = "confirmed"
             /\ \A row \in RowOf(g.confirmed.id) : row.status = "confirmed")

\* C3: capacity is re-checked at confirmation: the confirm of a Pending
\* reservation R with confirmed_seat_count(R.event) + R.spot_count > capacity
\* at that moment fails with CapacityExceeded, R remains Pending, no token is
\* minted and no confirmation email is sent.
RecheckAtConfirm ==
    [][\A f \in Frames :
        (/\ f.pc = "verify_update"
         /\ Stepped(f)
         /\ \E row \in RowOf(f.pending.id) : row.status = "pending"
         /\ confirmed_seat_count(f.pending.event_id) + f.pending.spot_count
                > events[f.pending.event_id].capacity)
        => /\ reply' = <<"verify", "CapacityExceeded">>
           /\ reservations' = reservations
           /\ reservation_tokens' = reservation_tokens
           /\ outbox' = outbox]_vars

\* C4: the Pending->Confirmed transition happens exactly once per
\* reservation, however many verify requests carry its token: the store
\* never holds more than spot_count reservation tokens for a reservation.
ConfirmOnce ==
    \A row \in reservations : Cardinality(TokensOf(row.id)) <= row.spot_count

\* C5: confirmation is one atomic unit: in every state, also after a store
\* failure inside confirm, a reservation is Pending with no reservation
\* token in the store or Confirmed with (at least) its spot_count tokens.
ConfirmAtomic ==
    \A row \in reservations :
        IF row.status = "pending"
        THEN TokensOf(row.id) = {}
        ELSE Cardinality(TokensOf(row.id)) >= row.spot_count

\* the number of replies `result` that scans of `token` have received
ScanReplies(token, result) == CopiesIn(<<token, result>>, scanned)

\* the scan replies this step adds
NewScanReplies ==
    {e \in BagToSet(scanned') : CopiesIn(e, scanned') > CopiesIn(e, scanned)}

\* C6: a successful confirm of a Pending reservation with spot_count = n
\* yields a Confirmed reservation that carries exactly n reservation tokens,
\* all Active, pairwise distinct, each owned by the reservation's id (and
\* each stored for it): this holds of every value confirm_reservation
\* returns with Ok.
ConfirmYieldsTokens ==
    \A f \in Frames :
        f.pc = "verify_email" =>
            LET c == f.confirmed
                tokens == c.reservation_tokens
            IN /\ c.status = "Confirmed"
               /\ \A row \in RowOf(c.id) :
                    row.status = "confirmed" /\ row.spot_count = c.spot_count
               /\ Len(tokens) = c.spot_count
               /\ \A i \in 1..Len(tokens) :
                    /\ tokens[i].status = "Active"
                    /\ tokens[i].reservation_id = c.id
                    /\ \E t \in TokensOf(c.id) : t.token = tokens[i].token
                    /\ \A j \in 1..Len(tokens) :
                            i # j => tokens[i].token # tokens[j].token

\* C6: a confirm of a reservation of 2 spots has returned.
ConfirmYieldsTokensWitness ==
    \E f \in Frames :
        /\ f.pc = "verify_email"
        /\ f.confirmed.spot_count = 2
        /\ Cardinality(TokensOf(f.confirmed.id)) = 2

\* C7: scan exactly-once: of the scans of a stored reservation token, however
\* they interleave, exactly one is answered with success and every other
\* with TokenInvalid, and once one has been answered the token is Used (as
\* long as nothing but the program writes the store).
ScanExactlyOnce ==
    \A t \in reservation_tokens :
        /\ ScanReplies(t.token, "Ok") <= 1
        /\ (ScanReplies(t.token, "Ok") + ScanReplies(t.token, "TokenInvalid") >= 1)
                => (ScanReplies(t.token, "Ok") = 1 /\ t.status = "used")
        /\ (t.status = "used") => ScanReplies(t.token, "Ok") = 1

\* C7: a token scanned more than once.
ScanExactlyOnceWitness ==
    \E t \in reservation_tokens :
        /\ ScanReplies(t.token, "Ok") = 1
        /\ ScanReplies(t.token, "TokenInvalid") >= 1
        /\ t.status = "used"

\* C8: a scan is answered with TokenInvalid exactly when no row of the store
\* has the token with status 'active' (the token is absent, Used or
\* Expired), and such a scan leaves the store as it was.
ScanInvalid ==
    [][\A e \in NewScanReplies :
        /\ (e[2] = "TokenInvalid")
                <=> ~ \E t \in reservation_tokens :
                        t.token = e[1] /\ t.status = "active"
        /\ reply' = <<"scan", e[2]>>
        /\ (e[2] = "TokenInvalid") => store' = store]_vars

\* C8: an absent token and an Expired token have been scanned.
ScanInvalidWitness ==
    /\ ScanReplies(BogusReservationToken, "TokenInvalid") >= 1
    /\ \E t \in reservation_tokens :
        /\ t.status = "expired"
        /\ ScanReplies(t.token, "TokenInvalid") >= 1

\* C9: token transitions are one-way: no step takes a reservation token that
\* is Used or Expired to Active (or out of the store).
TokensOneWay ==
    [][\A t \in reservation_tokens :
        t.status \in {"used", "expired"} =>
            /\ \E t2 \in reservation_tokens' : t2.token = t.token
            /\ \A t2 \in reservation_tokens' :
                    t2.token = t.token => t2.status = t.status]_vars

\* C9: a Used token has been scanned again, next to an Expired token.
TokensOneWayWitness ==
    /\ \E t \in reservation_tokens :
        t.status = "used" /\ ScanReplies(t.token, "TokenInvalid") >= 1
    /\ \E t \in reservation_tokens : t.status = "expired"

\* C10: reservation transitions are one-way: no step takes a reservation
\* whose stored status is 'confirmed' to any other status (or out of the
\* store).
ReservationsOneWay ==
    [][\A row \in reservations :
        row.status = "confirmed" =>
            /\ \E row2 \in reservations' : row2.id = row.id
            /\ \A row2 \in reservations' :
                    row2.id = row.id => row2.status = "confirmed"]_vars

\* C10: the UPDATE of a confirm has run on a reservation that was Confirmed
\* already.
ReservationsOneWayWitness ==
    \E row \in reservations :
        /\ row.status = "confirmed"
        /\ Cardinality(TokensOf(row.id)) > row.spot_count

\* a reserve request is admitted in this step: its handler goes on to the
\* INSERT
Admitted(f) ==
    f.pc = "reserve_insert" /\ CopiesIn(f, inflight') > CopiesIn(f, inflight)

\* C11: the confirmed seat count the capacity ledger computes
\* (count_event_reservations) is the sum of spot_count over the Confirmed
\* reservations of the event, whatever the store holds.
LedgerIsSeatSum ==
    \A e \in EventIds : count_event_reservations(e) = confirmed_seat_count(e)

\* C12: admission at reserve time: no reserve request for event E with
\* spot_count s is admitted while confirmed_seat_count(E) + s > E.capacity.
AdmissionBySeats ==
    [][\A f \in BagToSet(inflight') :
        Admitted(f) =>
            confirmed_seat_count(f.payload.event_id) + f.payload.spot_count
                <= events[f.payload.event_id].capacity]_vars

\* the rows this step adds to the reservations table
NewReservationRows == reservations' \ reservations

\* C13: Pending reservations consume no confirmed capacity: a step that
\* inserts Pending rows leaves, for every event, the confirmed count
\* (count_event_reservations), the confirmed seats and the result of the
\* capacity check (check_open_event_capacity) as they were.
PendingConsumesNothing ==
    [][(/\ NewReservationRows # {}
        /\ \A row \in NewReservationRows : row.status = "pending")
        => \A e \in EventIds :
            /\ count_event_reservations(e)' = count_event_reservations(e)
            /\ confirmed_seat_count(e)' = confirmed_seat_count(e)
            /\ check_open_event_capacity(e)' = check_open_event_capacity(e)]_vars

\* C13: an event holds a Pending reservation for as many spots as its
\* capacity and still reports capacity.
PendingConsumesNothingWitness ==
    \E row \in reservations :
        /\ row.status = "pending"
        /\ row.spot_count = events[row.event_id].capacity
        /\ check_open_event_capacity(row.event_id)

\* C14: confirm requires an open event: the confirm of a Pending reservation
\* whose event is not Open at that moment (here: already full, its confirmed
\* seats have reached its capacity) fails with EventNotOpen, the reservation
\* remains Pending and no token is minted.
ConfirmNeedsOpenEvent ==
    [][\A f \in Frames :
        (/\ f.pc = "verify_update"
         /\ Stepped(f)
         /\ \E row \in RowOf(f.pending.id) : row.status = "pending"
         /\ confirmed_seat_count(f.pending.event_id)
                >= events[f.pending.event_id].capacity)
        => /\ reply' = <<"verify", "EventNotOpen">>
           /\ reservations' = reservations
           /\ reservation_tokens' = reservation_tokens
           /\ uuids' = uuids]_vars

\* C15: a notification failure never rolls back a committed transition: when
\* send_verification fails, the Pending row inserted for the request is
\* still in the store, and when send_confirmation fails, the reservation is
\* still Confirmed with all the tokens minted for it; the failing step
\* writes nothing to the store.
NotificationFailureKeepsState ==
    [][\A f \in Frames :
        /\ (/\ f.pc = "reserve_fetch" /\ Stepped(f)
            /\ reply' = <<"reserve", "InvalidEmail">>)
            => /\ \E row \in reservations' :
                    row.id = f.creating.id /\ row.status = "pending"
               /\ store' = store
        /\ (/\ f.pc = "verify_email" /\ Stepped(f)
            /\ reply' = <<"verify", "InvalidEmail">>)
            => /\ \E row \in reservations' :
                    row.id = f.confirmed.id /\ row.status = "confirmed"
               /\ \A i \in 1..Len(f.confirmed.reservation_tokens) :
                    \E t \in reservation_tokens' :
                        /\ t.token = f.confirmed.reservation_tokens[i].token
                        /\ t.reservation_id = f.confirmed.id
               /\ store' = store]_vars

\* C15: both emails of one reservation have failed: its confirm request was
\* answered with the failure and the reservation is Confirmed with tokens.
NotificationFailureKeepsStateWitness ==
    /\ reply = <<"verify", "InvalidEmail">>
    /\ \E row \in reservations :
        /\ row.status = "confirmed"
        /\ ~ is_valid_email(row.user_email)
        /\ Cardinality(TokensOf(row.id)) >= row.spot_count

\* C16: a notification failure is reported apart from the transition
\* result: the response to a verify request that has confirmed its
\* reservation, also when the confirmation email failed, is not an error
\* response: it tells the caller that the reservation is Confirmed.
ConfirmedOutcomeConveyed ==
    [][\A f \in Frames :
        (f.pc = "verify_email" /\ Stepped(f))
            => into_response(reply'[2]).status < 400]_vars

\* the emails this step hands to the provider
NewEmails == outbox' \ outbox

\* C17: notification follows commit: send_verification is invoked only
\* when the row inserted Pending for that reservation is in the store and
\* carries the verification token that is sent; send_confirmation is invoked
\* only when the reservation is stored Confirmed with the reservation tokens
\* of that confirm; no other step, so none of a rejected request, sends an
\* email.
NotificationFollowsCommit ==
    [][/\ \A f \in Frames :
            /\ (/\ f.pc = "reserve_fetch" /\ Stepped(f)
                /\ reply'[2] \in {"Ok", "InvalidEmail"})
                => \E row \in reservations :
                        /\ row.id = f.creating.id
                        /\ row.verification_token = f.creating.verification_token
                        /\ \A m \in NewEmails :
                                /\ m.kind = "verification"
                                /\ m.reservation_id = row.id
                                /\ m.token = row.verification_token
            /\ (/\ f.pc = "verify_email" /\ Stepped(f)
                /\ reply'[2] \in {"Ok", "InvalidEmail"})
                => /\ \E row \in reservations :
                        row.id = f.confirmed.id /\ row.status = "confirmed"
                   /\ \A i \in 1..Len(f.confirmed.reservation_tokens) :
                        \E t \in reservation_tokens :
                            /\ t.token = f.confirmed.reservation_tokens[i].token
                            /\ t.reservation_id = f.confirmed.id
                   /\ \A m \in NewEmails :
                        m.kind = "confirmation" /\ m.reservation_id = f.confirmed.id
       /\ NewEmails # {} =>
            /\ reply'[2] = "Ok"
            /\ \E f \in Frames :
                    Stepped(f) /\ f.pc \in {"reserve_fetch", "verify_email"}]_vars

\* C17: both emails of a reservation have been sent, and a request was
\* rejected after that.
NotificationFollowsCommitWitness ==
    /\ \E m \in outbox, n \in outbox :
        /\ m.kind = "verification" /\ n.kind = "confirmation"
        /\ m.reservation_id = n.reservation_id
    /\ reply[2] \in ValidationResults

\* C18: lookups are scoped to the expected state: for a stored reservation
\* that is Confirmed the two pending lookups (by id, by verification token)
\* find nothing, for one that is Pending the two confirmed lookups find
\* nothing, and of the pending and the confirmed lookup exactly one
\* succeeds, with that reservation.
LookupsScoped ==
    \A row \in reservations :
        LET pending_by_id == get_pending_reservation_by_id(row.id)
            confirmed_by_id == get_confirmed_reservation_by_id(row.id)
            pending_by_token ==
                get_pending_reservation_by_verification_token(row.verification_token)
            confirmed_by_token ==
                get_confirmed_reservation_by_verification_token(row.verification_token)
        IN /\ row.status = "confirmed" =>
                pending_by_id = {} /\ pending_by_token = {}
           /\ row.status = "pending" =>
                confirmed_by_id = {} /\ confirmed_by_token = {}
           /\ (pending_by_id = {}) # (confirmed_by_id = {})
           /\ (pending_by_token = {}) # (confirmed_by_token = {})
           /\ pending_by_id \cup confirmed_by_id = {row}
           /\ pending_by_token \cup confirmed_by_token = {row}

\* C18: a verify has found a Confirmed reservation by its token after the
\* pending lookup had not, next to a Pending reservation.
LookupsScopedWitness ==
    /\ reply[1] = "verify"
    /\ reply[2] = "Validation: Reservation already confirmed"
    /\ \E row \in reservations : row.status = "pending"
    /\ \E row \in reservations : row.status = "confirmed"

\* C19: a Confirmed reservation can be found by any of its reservation
\* tokens: for every stored token of a Confirmed reservation R, Active, Used
\* or Expired, the lookup by that token returns R.
FoundByAnyToken ==
    \A t \in reservation_tokens :
        \A row \in RowOf(t.reservation_id) :
            row.status = "confirmed" =>
                get_confirmed_reservation_by_reservation_token(t.token)
                    = [result |-> "Ok", rows |-> {row}]

\* C20: event status is a view recomputed on every read: no read of an
\* event whose confirmed seats have reached its capacity reports it Open
\* (it is Full, or Finished once its end_time has passed).
EventStatusDerived ==
    [][\A e \in EventIds :
        (/\ issued' = issued + 1
         /\ inflight' = inflight
         /\ reply' = <<"event", "Open", e>>)
        => confirmed_seat_count(e) < events[e].capacity]_vars

TokenUniqueness ==
    /\ \A r1 \in reservations, r2 \in reservations :
            r1.verification_token = r2.verification_token => r1 = r2
    /\ \A t1 \in reservation_tokens, t2 \in reservation_tokens :
            t1.token = t2.token => t1 = t2
    /\ \A r \in reservations, t \in reservation_tokens :
            r.verification_token # t.token
    /\ \A f \in Frames :
            PastUpdate(f) =>
                \A i \in 1..Len(f.confirmed.reservation_tokens) :
                    /\ \A t \in reservation_tokens :
                            t.token = f.confirmed.reservation_tokens[i].token
                                => t.reservation_id = f.confirmed.id
                    /\ \A r \in reservations :
                            r.verification_token
                                # f.confirmed.reservation_tokens[i].token

\* C22: two reservations are stored and both hold reservation tokens.
TokenUniquenessWitness ==
    \E t1 \in reservation_tokens, t2 \in reservation_tokens :
        /\ t1.reservation_id # t2.reservation_id
        /\ \E r1 \in RowOf(t1.reservation_id), r2 \in RowOf(t2.reservation_id) :
                r1.verification_token # r2.verification_token

\* C23: the verification token of a reservation is immutable: the token
\* prepare generates is the one the INSERT stores, no step changes the
\* verification token of a stored reservation (nor removes the reservation),
\* and the Confirmed value a confirm produces carries the token of its row.
VerificationTokenImmutable ==
    [][/\ \A row \in reservations :
            /\ RowOf(row.id)' # {}
            /\ \A row2 \in RowOf(row.id)' :
                    row2.verification_token = row.verification_token
       /\ \A f \in Frames :
            (Stepped(f) /\ f.pc = "reserve_insert")
                => \E row \in reservations' \ reservations :
                        row.verification_token
                            = prepare(f.payload.event_id, f.payload.user_name,
                                      f.payload.user_email,
                                      f.payload.spot_count,
                                      uuids).verification_token
       /\ \A f \in BagToSet(inflight') :
            PastUpdate(f)
                => /\ RowOf(f.confirmed.id)' # {}
                   /\ \A row \in RowOf(f.confirmed.id)' :
                        row.verification_token = f.confirmed.verification_token
      ]_vars

\* C23: a confirm has produced a Confirmed value; its row is confirmed and
\* holds the token the verification email of the reservation carried.
VerificationTokenImmutableWitness ==
    \E f \in Frames :
        /\ f.pc = "verify_email"
        /\ \E row \in RowOf(f.confirmed.id) :
                /\ row.status = "confirmed"
                /\ row.verification_token = f.confirmed.verification_token
                /\ \E mail \in outbox :
                        /\ mail.kind = "verification"
                        /\ mail.reservation_id = row.id
                        /\ mail.token = row.verification_token

\* C24: an insert_reservation whose verification token is that of a stored
\* reservation fails with TokenCollision, a failure of its own kind and not
\* the generic store failure, and inserts no row and changes no stored
\* reservation.
InsertCollisionIsTokenCollision ==
    [][(/\ issued' = issued + 1
        /\ \/ inflight' = inflight /\ reply'[1] = "insert"
           \/ \E f \in BagToSet(inflight') :
                /\ CopiesIn(f, inflight') > CopiesIn(f, inflight)
                /\ f.pc = "insert_fetch"
                /\ \E row \in reservations :
                        row.verification_token = f.creating.verification_token)
       => /\ reply' = <<"insert", "TokenCollision">>
          /\ reservations' = reservations]_vars

\* C25: a spot_count outside [1, capacity of the event] is rejected by
\* prepare before an id, a token or a row exists: every CreatingReservation
\* a caller holds and every stored reservation has
\* 1 <= spot_count <= capacity of its event.
SpotCountInRange ==
    /\ \A row \in reservations :
            /\ row.spot_count >= 1
            /\ row.spot_count <= events[row.event_id].capacity
    /\ \A f \in Frames :
            f.pc \in {"reserve_fetch", "insert_fetch"}
                => /\ f.creating.spot_count >= 1
                   /\ f.creating.spot_count <= events[f.creating.event_id].capacity

ErrorClasses ==
    /\ into_response("EventNotFound")
            = [status |-> 404, error |-> "Event not found"]
    /\ into_response("ReservationNotFound")
            = [status |-> 404, error |-> "Reservation not found"]
    /\ \A result \in ValidationResults : into_response(result).status = 400
    /\ \A result \in OtherDatabaseErrors :
            into_response(result)
                = [status |-> 500, error |-> "Internal server error"]
    /\ reply[1] \in {"reserve", "verify", "scan"}
            => LET response == into_response(reply[2])
               IN /\ response.status \in {200, 400, 404, 500}
                  /\ response.status = 404
                        <=> reply[2] \in {"EventNotFound", "ReservationNotFound",
                                          "NotFound"}
                  /\ response.status = 500
                        <=> reply[2] \in OtherDatabaseErrors
                  /\ response.status = 500
                        => response.error = "Internal server error"
                  /\ \A error \in SqlxErrors : response.error # error

\* C27: a handler has ended in a store error that carries the text of a
\* failed statement, after a reservation was stored.
ErrorClassesWitness ==
    /\ reply = <<"reserve", UniqueViolation>>
    /\ reservations # {}
    /\ into_response(reply[2]).status = 500

\* C28: a scan changes only the scanned token: a step in which the scan of
\* a token succeeds leaves every reservation (the owner of the token
\* included), the events, the emails and every other token, the siblings of
\* the same reservation included, as they were; the scanned token becomes
\* 'used' with its used_at set, and nothing else of it changes.
ScanChangesOnlyToken ==
    [][\A t \in reservation_tokens :
        CopiesIn(<<t.token, "Ok">>, scanned') > CopiesIn(<<t.token, "Ok">>, scanned)
            => /\ reservations' = reservations
               /\ events' = events
               /\ outbox' = outbox
               /\ reservation_tokens'
                    = (reservation_tokens \ {t})
                        \cup {[t EXCEPT !.status = "used", !.used_at = now_utc]}
      ]_vars

\* C28: one token of a reservation was scanned with success and a sibling
\* token of the same reservation is still active.
ScanChangesOnlyTokenWitness ==
    \E t \in reservation_tokens, sibling \in reservation_tokens :
        /\ t.reservation_id = sibling.reservation_id
        /\ t.status = "used" /\ t.used_at = now_utc
        /\ sibling.status = "active"
        /\ CopiesIn(<<t.token, "Ok">>, scanned) = 1

\* C29: verify tells a reservation in the wrong state from an absent one: a
\* verify that presents the verification token of a Confirmed reservation
\* is answered with the validation error "Reservation already confirmed",
\* one that presents a token of no reservation with NotFound, and neither
\* changes the store, mints a token or sends an email.
VerifyWrongStateOrAbsent ==
    [][\A token \in {row.verification_token : row \in reservations}
                        \cup {BogusVerificationToken} :
        (/\ issued' = issued + 1
         /\ inflight' = inflight
         /\ reply'[1] = "verify"
         /\ Len(reply') = 3
         /\ reply'[3] = token)
        => /\ (\E row \in reservations :
                    row.verification_token = token /\ row.status = "confirmed")
                => reply'[2] = "Validation: Reservation already confirmed"
           /\ (\A row \in reservations : row.verification_token # token)
                => reply'[2] = "NotFound"
           /\ reply'[2] \in {"Validation: Reservation already confirmed",
                              "NotFound"}
           /\ store' = store
           /\ outbox' = outbox
           /\ uuids' = uuids]_vars

\* C29: a verify with a token of no reservation was answered with NotFound
\* while a Confirmed reservation, with its tokens and its emails, is stored.
VerifyWrongStateOrAbsentWitness ==
    /\ reply = <<"verify", "NotFound", BogusVerificationToken>>
    /\ \E row \in reservations :
            /\ row.status = "confirmed"
            /\ TokensOf(row.id) # {}
    /\ outbox # {}

\* C30: verify confirms only the reservation that owns the presented
\* token: a verify goes on to confirm only the Pending reservation its
\* token finds; a stored reservation changes only in the UPDATE of the
\* verify that found it by its token, and then only to Confirmed; a step of
\* a verify leaves every other reservation and the tokens of every other
\* reservation as they were; and no reservation becomes Confirmed in any
\* other step.
VerifyConfirmsOnlyOwner ==
    [][/\ \A f \in BagToSet(inflight') :
            (f.pc = "verify_update"
                /\ CopiesIn(f, inflight') > CopiesIn(f, inflight))
                => \E row \in get_pending_reservation_by_verification_token(
                                    f.pending.verification_token) :
                        f.pending = to_pending_reservation(row)
       /\ \A row \in reservations :
            row \notin reservations'
                => \E f \in Frames :
                    /\ Stepped(f)
                    /\ f.pc = "verify_update"
                    /\ f.pending.id = row.id
                    /\ f.pending.verification_token = row.verification_token
                    /\ reservations'
                        = (reservations \ {row})
                            \cup {[row EXCEPT !.status = "confirmed",
                                              !.verified_at = now_utc]}
       /\ \A row2 \in reservations' :
            (row2.status = "confirmed" /\ row2 \notin reservations)
                => \E f \in Frames :
                    /\ Stepped(f)
                    /\ f.pc = "verify_update"
                    /\ f.pending.id = row2.id
                    /\ f.pending.verification_token = row2.verification_token
       /\ \A f \in Frames :
            (Stepped(f) /\ f.pc \in {"verify_update", "verify_insert", "verify_email"})
                => LET id == IF f.pc = "verify_update"
                             THEN f.pending.id ELSE f.confirmed.id
                   IN /\ \A row \in reservations \cup reservations' :
                            row.id # id
                                => row \in reservations /\ row \in reservations'
                      /\ \A t \in reservation_tokens \cup reservation_tokens' :
                            t.reservation_id # id
                                => /\ t \in reservation_tokens
                                   /\ t \in reservation_tokens'
      ]_vars

\* C30: a verify has succeeded for one reservation while another is still
\* Pending.
VerifyConfirmsOnlyOwnerWitness ==
    /\ reply = <<"verify", "Ok">>
    /\ \E row \in reservations, other \in reservations :
            /\ row.status = "confirmed"
            /\ Cardinality(TokensOf(row.id)) = row.spot_count
            /\ other.status = "pending"
            /\ TokensOf(other.id) = {}

\* C31: retrieval is gated on confirmation: a retrieve answers with the
\* details of a reservation only if the reservation is Confirmed, with the
\* validation error that asks to confirm first only if it is Pending, with
\* NotFound only if no reservation has the id, and no step of a retrieve
\* changes the store.
RetrievalGated ==
    [][\A f \in Frames :
        (Stepped(f) /\ f.pc \in {"retrieve_pending", "retrieve_tokens",
                                   "retrieve_event"})
            => /\ store' = store
               /\ outbox' = outbox
               /\ (reply'[1] = "retrieve" /\ f.pc # "retrieve_tokens")
                    => /\ reply'[2] = "Ok"
                            => \E row \in RowOf(reply'[3]) : row.status = "confirmed"
                       /\ reply'[2] = "Validation: Reservation must be confirmed before it can be retrieved"
                            => \E row \in RowOf(reply'[3]) : row.status = "pending"
                       /\ reply'[2] = "NotFound" => RowOf(reply'[3]) = {}
      ]_vars

\* the events table holds the event with status 'open'
EventIsOpen(e) == e \in DOMAIN events /\ events[e].status = "open"

SameReservation(before, after) ==
    /\ after.id = before.id
    /\ after.event_id = before.event_id
    /\ after.user_name = before.user_name
    /\ after.user_email = before.user_email
    /\ after.spot_count = before.spot_count

\* C33: transition timestamps and preserved fields: create sets created_at
\* and updated_at to the given time; confirm sets verified_at and updated_at
\* to the confirmation time and keeps created_at; both keep id, event_id,
\* user_name, user_email and spot_count.
TransitionTimestamps ==
    \A f \in Frames :
        /\ f.pc = "pending"
            => /\ f.pending.status = "Pending"
               /\ f.pending.created_at = f.created_at
               /\ f.pending.updated_at = f.created_at
               /\ SameReservation(f.creating, f.pending)
        /\ f.pc = "confirmed"
            => /\ f.confirmed.status = "Confirmed"
               /\ f.confirmed.verified_at = f.confirmed_at
               /\ f.confirmed.updated_at = f.confirmed_at
               /\ f.confirmed.created_at = f.pending.created_at
               /\ SameReservation(f.pending, f.confirmed)

\* C33: a reservation created at one time was confirmed at another.
TransitionTimestampsWitness ==
    \E f \in Frames :
        /\ f.pc = "confirmed"
        /\ f.pending.created_at # f.confirmed_at
        /\ f.confirmed.created_at # f.confirmed.updated_at
        /\ f.confirmed.spot_count = MaxSpots

\* the ids a reservation can have
ReservationIds == 1..(MaxRequests * (MaxSpots + 2))

\* a verify is in flight for the reservation
VerifyInFlight(id) ==
    \E f \in Frames :
        \/ f.pc = "verify_update" /\ f.pending.id = id
        \/ PastUpdate(f) /\ f.confirmed.id = id

\* C34: progress of verify: under fair scheduling and with no store or
\* notification failure, every verify that has found the Pending
\* reservation of its token, the event of the reservation being open with
\* at least spot_count seats left, eventually completes, and the
\* reservation is then Confirmed.
VerifyProgress ==
    \A id \in ReservationIds :
        (\E f \in Frames :
            /\ f.pc = "verify_update"
            /\ f.pending.id = id
            /\ EventIsOpen(f.pending.event_id)
            /\ confirmed_seat_count(f.pending.event_id) + f.pending.spot_count
                    <= events[f.pending.event_id].capacity)
        ~> (/\ ~ VerifyInFlight(id)
            /\ \E row \in RowOf(id) : row.status = "confirmed")

\* C34: every request has been answered, the last a verify that succeeded
\* for a reservation of several spots.
VerifyProgressWitness ==
    /\ inflight = EmptyBag
    /\ reply = <<"verify", "Ok">>
    /\ \E row \in reservations :
            /\ row.status = "confirmed"
            /\ row.spot_count = MaxSpots
            /\ Cardinality(TokensOf(row.id)) = MaxSpots

\* C35: no operation of the program sets a reservation token to Expired:
\* in every state reachable through reserve, verify and scan every stored
\* token is 'active' or 'used', and is exposed as Active or Used.
NoTokenExpires ==
    \A t \in reservation_tokens :
        /\ t.status \in {"active", "used"}
        /\ to_any_reservation_token(t)[2] \in {"Active", "Used"}

\* C35: tokens have been minted and scanned, one of them twice.
NoTokenExpiresWitness ==
    /\ \E t \in reservation_tokens :
            t.status = "used" /\ ScanReplies(t.token, "TokenInvalid") >= 1
    /\ \E t \in reservation_tokens : t.status = "active"

\* C36: reservation tokens exist only for confirmed reservations: in every
\* reachable state, between the steps of a confirm included, every stored
\* reservation token references a stored reservation whose status is
\* 'confirmed'; a Pending reservation has no stored token.
TokensOnlyForConfirmed ==
    /\ \A t \in reservation_tokens :
            /\ RowOf(t.reservation_id) # {}
            /\ \A row \in RowOf(t.reservation_id) : row.status = "confirmed"
    /\ \A row \in reservations :
            row.status = "pending" => TokensOf(row.id) = {}

\* C36: a confirm is between two of its INSERTs, next to a Pending
\* reservation.
TokensOnlyForConfirmedWitness ==
    /\ \E f \in Frames :
            /\ f.pc = "verify_insert"
            /\ f.i = 2
            /\ Cardinality(TokensOf(f.confirmed.id)) = 1
    /\ \E row \in reservations : row.status = "pending"

\* C37: verified_at tracks the reservation state: in every reachable state
\* a stored reservation is 'confirmed' if and only if its verified_at is
\* set, so that loading a confirmed row never hits the unwrap of an absent
\* verified_at, and a stored token is 'used' if and only if its used_at is
\* set.
TimestampsTrackState ==
    /\ \A row \in reservations :
            (row.status = "confirmed") <=> (row.verified_at # NULL)
    /\ \A t \in reservation_tokens :
            (t.status = "used") <=> (t.used_at # NULL)
    /\ \A f \in Frames :
            f.pc = "retrieve_tokens" => f.row.verified_at # NULL
    /\ reply[2] # "Panic"

\* C37: a retrieve has loaded a confirmed row with a token that was
\* scanned.
TimestampsTrackStateWitness ==
    \E f \in Frames :
        /\ f.pc = "retrieve_event"
        /\ f.row.verified_at = now_utc
        /\ \E tok \in f.reservation_tokens : tok[2] = "Used"
        /\ \E t \in TokensOf(f.row.id) : t.used_at = now_utc

\* C38: reservations are never removed and their binding never changes:
\* every step keeps every stored reservation in the store with the same id,
\* event_id and spot_count, and keeps every stored reservation token with
\* the same owning reservation id.
BindingsPersist ==
    [][/\ \A row \in reservations :
            /\ RowOf(row.id)' # {}
            /\ \A row2 \in RowOf(row.id)' :
                    /\ row2.event_id = row.event_id
                    /\ row2.spot_count = row.spot_count
       /\ \A t \in reservation_tokens :
            /\ \E t2 \in reservation_tokens' : t2.token = t.token
            /\ \A t2 \in reservation_tokens' :
                    t2.token = t.token => t2.reservation_id = t.reservation_id
      ]_vars

\* C38: a reservation has been confirmed, one of its tokens scanned and
\* another expired, while a second reservation is stored.
BindingsPersistWitness ==
    \E row \in reservations, other \in reservations :
        /\ other.id # row.id
        /\ row.status = "confirmed"
        /\ \E t \in TokensOf(row.id) : t.status = "used"
        /\ \E t \in TokensOf(row.id) : t.status = "expired"

\* C39: unknown stored statuses fail closed: a token row whose status is
\* none of active, used, expired is exposed as Expired, never Active, by
\* to_any_reservation_token and by
\* get_reservation_tokens_by_reservation_id, and a reservation row that is
\* not 'confirmed' with verified_at set is exposed by reservation_from_row
\* as Pending, never Confirmed.
UnknownStatusFailsClosed ==
    /\ \A t \in reservation_tokens :
            t.status \notin {"active", "used", "expired"}
                => /\ to_any_reservation_token(t) = <<t.token, "Expired">>
                   /\ <<t.token, "Expired">>
                        \in get_reservation_tokens_by_reservation_id(t.reservation_id)
                   /\ <<t.token, "Active">>
                        \notin get_reservation_tokens_by_reservation_id(t.reservation_id)
    /\ \A row \in reservations :
            ~ (row.status = "confirmed" /\ row.verified_at # NULL)
                => reservation_from_row(row) = "Pending"
    /\ reply[1] = "load"
            => \A row \in RowOf(reply[3]) :
                    reply[2] = "Confirmed"
                        => row.status = "confirmed" /\ row.verified_at # NULL
    /\ reply[1] = "token"
            => \A t \in reservation_tokens :
                    (t.token = reply[3] /\ reply[2] = "Active")
                        => t.status = "active"

\* C39: the store holds a token row of unknown status and a 'confirmed'
\* row without verified_at, which has just been loaded as Pending.
UnknownStatusFailsClosedWitness ==
    /\ \E t \in reservation_tokens : t.status = "revoked"
    /\ \E row \in reservations :
            /\ row.status = "confirmed"
            /\ row.verified_at = NULL
            /\ reply = <<"load", "Pending", row.id>>
====
